---- MODULE Spec2Model ----
(***************************************************************************)
(* Model of Discovery.py: the credential pre-flight, the sequential region *)
(* loop of main(), the paginated tag-index scan (get_tagged_resources),    *)
(* the thread-pool fan-out of discover_resources_for_service, and the      *)
(* merge of the results into all_results.                                  *)
(*                                                                         *)
(* Strings whose characters the code inspects (operation names, response   *)
(* field names, ARNs) are sequences of one-character strings, so that      *)
(* lower(), startswith(), endswith(), `in` and split() are computed.       *)
(***************************************************************************)
EXTENDS Integers, Sequences, FiniteSets, TLC

VARIABLES
    regions,            \* main: regions (list of region ids)
    services,           \* main: services (list of service names)
    threads,            \* main: args.threads
    world,              \* what boto3.client(service, region) and its operations do
    tagWorld,           \* what the tagging API of each region does
    pc,                 \* main: position of the coordinator
    exitCode,           \* process exit status (-1 while running); once set, main has
                        \* ended and pc stays where it ended
    credentials_valid,  \* what validate_aws_credentials returned ("unset" before)
    ri,                 \* main: index of the current region in regions (0 before the loop)
    tagClient,          \* get_tagged_resources: tagging_client exists
    tagPage,            \* get_tagged_resources: pages fetched so far
    tagAcc,             \* get_tagged_resources: resources (accumulator)
    tagged_resources,   \* main: tagged_resources of the current region
    si,                 \* main: services submitted to the executor in this region
    tasks,              \* futures/tasks of every region, keyed by <<ri, ti>>
    region_resources,   \* main: region_resources
    all_results,        \* main: all_results
    total_tagged_resources, \* main: total_tagged_resources (-1 before it is computed)
    output,             \* the snapshots json.dump has written (none before)
    stdout              \* diagnostics printed so far

vars == <<regions, services, threads, world, tagWorld, pc, exitCode, credentials_valid, ri,
          tagClient, tagPage, tagAcc, tagged_resources, si, tasks,
          region_resources, all_results, total_tagged_resources, output, stdout>>

----------------------------------------------------------------------------
(* Bounds of the model *)

MaxRegions == 2
MaxServices == 2
MaxThreads == 2

----------------------------------------------------------------------------
(* Strings as character sequences *)

UpperChars == <<"A","B","C","D","E","F","G","H","I","J","K","L","M",
                "N","O","P","Q","R","S","T","U","V","W","X","Y","Z">>
LowerChars == <<"a","b","c","d","e","f","g","h","i","j","k","l","m",
                "n","o","p","q","r","s","t","u","v","w","x","y","z">>

LowerChar(c) ==
    IF \E k \in 1..Len(UpperChars) : UpperChars[k] = c
    THEN LowerChars[CHOOSE k \in 1..Len(UpperChars) : UpperChars[k] = c]
    ELSE c

\* str.lower()
ToLower(s) == [k \in 1..Len(s) |-> LowerChar(s[k])]

\* str.startswith(p)
StartsWith(s, p) == Len(s) >= Len(p) /\ SubSeq(s, 1, Len(p)) = p

\* str.endswith(p)
EndsWith(s, p) == Len(s) >= Len(p) /\ SubSeq(s, Len(s) - Len(p) + 1, Len(s)) = p

\* p in s
Contains(s, p) == \E k \in 1..(Len(s) - Len(p) + 1) : SubSeq(s, k, k + Len(p) - 1) = p

\* the index of the first c in s at or after k, Len(s)+1 when there is none
RECURSIVE FindChar(_, _, _)
FindChar(s, c, k) ==
    IF k > Len(s) THEN Len(s) + 1
    ELSE IF s[k] = c THEN k ELSE FindChar(s, c, k + 1)

\* str.split(c)
RECURSIVE Split(_, _)
Split(s, c) ==
    LET k == FindChar(s, c, 1)
    IN  IF k > Len(s) THEN <<s>>
        ELSE <<SubSeq(s, 1, k - 1)>> \o Split(SubSeq(s, k + 1, Len(s)), c)

EmptyMap == [k \in {} |-> 0]

\* d[k] = v on a dict
Put(d, k, v) == [x \in (DOMAIN d) \cup {k} |-> IF x = k THEN v ELSE d[x]]

Range(s) == {s[k] : k \in DOMAIN s}

----------------------------------------------------------------------------
(* String literals of the source *)

S_list == <<"l","i","s","t">>
S_describe == <<"d","e","s","c","r","i","b","e">>
S_get == <<"g","e","t">>
S_all == <<"a","l","l">>
S_ids == <<"i","d","s">>
S_arns == <<"a","r","n","s">>
S_names == <<"n","a","m","e","s">>
S_summaries == <<"s","u","m","m","a","r","i","e","s">>

\* the operations discover_resources_for_service skips
SkippedOperations ==
    { <<"l","i","s","t","_","c","o","m","m","a","n","d","_","i","n","v","o","c","a","t","i","o","n","s">>,
      <<"l","i","s","t","_","d","o","c","u","m","e","n","t","s">>,
      <<"l","i","s","t","_","r","e","s","o","u","r","c","e","_","c","o","m","p","l","i","a","n","c","e","_","s","u","m","m","a","r","i","e","s">>,
      <<"l","i","s","t","_","t","a","g","s","_","f","o","r","_","r","e","s","o","u","r","c","e">>,
      <<"l","i","s","t","_","b","u","c","k","e","t","s">>,
      <<"l","i","s","t","_","m","u","l","t","i","p","a","r","t","_","u","p","l","o","a","d","s">> }

\* the field-name suffixes the extraction keeps
ResourceSuffixes == {S_list, S_ids, S_arns, S_names, S_summaries}

----------------------------------------------------------------------------
(* The outside world: catalogs, service models, responses, failures *)

\* sorted(boto3.Session().get_available_services()), cut to MaxServices
ServiceCatalog == SubSeq(<<"s1", "s2", "s3">>, 1, MaxServices)
\* the region enumeration, cut to MaxRegions
RegionCatalog == SubSeq(<<"r1", "r2", "r3">>, 1, MaxRegions)

Services == Range(ServiceCatalog)
Regions == Range(RegionCatalog)

Op_ListA == <<"L","i","s","t","A">>
Op_list_buckets == <<"l","i","s","t","_","b","u","c","k","e","t","s">>
Op_GetItem == <<"G","e","t","I","t","e","m">>
Op_describe_b == <<"d","e","s","c","r","i","b","e","_","b">>
Op_get_all_c == <<"g","e","t","_","a","l","l","_","c">>
Op_put_list == <<"p","u","t","_","l","i","s","t">>
Op_GetLists == <<"G","e","t","L","i","s","t","s">>

\* client._service_model.operation_names of each service
OperationNames(s) ==
    CASE s = "s1" -> <<Op_ListA, Op_list_buckets, Op_GetItem, Op_describe_b>>
      [] s = "s2" -> <<Op_get_all_c, Op_put_list, Op_GetLists>>
      [] OTHER    -> <<Op_describe_b>>

\* a response value: a list (isList, its items) or a scalar (its code in items)
ListValue(items) == [isList |-> TRUE, items |-> items]
ScalarValue(code) == [isList |-> FALSE, items |-> <<code>>]

F_Items == <<"I","t","e","m","s">>
F_NextToken == <<"N","e","x","t","T","o","k","e","n">>
F_TableNames == <<"T","a","b","l","e","N","a","m","e","s">>
F_Count == <<"C","o","u","n","t">>
F_TopicARNS == <<"T","o","p","i","c","A","R","N","S">>
F_Topics == <<"T","o","p","i","c","s">>

Arn_s1_x == <<"a",":","b",":","s","1",":","x">>
Arn_s1_y == <<"a",":","b",":","s","1",":","y">>
Arn_s2_z == <<"a",":","b",":","s","2",":","z">>

\* what a call returns: the name of a response, or the class of the exception raised
ResponseNames == {"ItemsToken", "EmptyNames", "CountOnly", "ScalarArns", "Topics"}
ExceptionNames == {"ClientError", "ParamValidationError",
                   "OperationNotPageableError", "EndpointConnectionError"}
Outcomes == ResponseNames \cup ExceptionNames

Response(name) ==
    CASE name = "ItemsToken" ->
            Put(Put(EmptyMap, F_Items, ListValue(<<1, 2, 3>>)), F_NextToken, ScalarValue(7))
      [] name = "EmptyNames" ->
            Put(EmptyMap, F_TableNames, ListValue(<<>>))
      [] name = "CountOnly" ->
            Put(Put(EmptyMap, F_Count, ScalarValue(0)), F_Items, ListValue(<<>>))
      [] name = "Topics" ->
            Put(Put(EmptyMap, F_Topics, ListValue(<<Arn_s2_z>>)), F_Count, ScalarValue(1))
      [] OTHER ->
            Put(Put(EmptyMap, F_TopicARNS, ScalarValue(9)), F_NextToken, ScalarValue(7))

\* the classes an exception is an instance of (botocore.exceptions)
Mro(e) ==
    CASE e = "ClientError" -> {"ClientError", "Exception"}
      [] e \in {"ValueError", "IndexError", "KeyError"} -> {e, "Exception"}
      [] OTHER -> {e, "BotoCoreError", "Exception"}

IsInstance(e, classes) == Mro(e) \cap classes # {}

\* a client of one (service, region): whether boto3.client returns, whether its
\* service model can be read, and what each operation does when called bare
UniformClient(s, ctor, o) ==
    [ctor |-> ctor, model |-> TRUE, out |-> [op \in Range(OperationNames(s)) |-> o]]

\* the operations whose outcome the single-service inputs vary
Probed(s) ==
    CASE s = "s1" -> {Op_ListA, Op_describe_b}
      [] s = "s2" -> {Op_get_all_c}
      [] OTHER    -> {Op_describe_b}

ProbedClients(s) ==
    { [ctor |-> TRUE, model |-> TRUE,
       out |-> [op \in Range(OperationNames(s)) |->
                   IF op \in Probed(s) THEN f[op] ELSE "ItemsToken"]] :
        f \in [Probed(s) -> Outcomes] }
    \cup { [ctor |-> c, model |-> m, out |-> [op \in Range(OperationNames(s)) |-> "ItemsToken"]] :
             c \in BOOLEAN, m \in BOOLEAN }

Resource(arn) == [ResourceARN |-> arn]
PageOf(arns) == [ok |-> TRUE, records |-> [k \in 1..Len(arns) |-> Resource(arns[k])]]
PageError == [ok |-> FALSE, records |-> <<>>]

\* the tag index of one region: whether its client can be made, and the pages
\* get_resources yields until the provider signals exhaustion
TagIndex(ctor, pages) == [ctor |-> ctor, pages |-> pages]
T_three == TagIndex(TRUE, <<PageOf(<<Arn_s1_x, Arn_s1_y>>), PageOf(<<Arn_s2_z, Arn_s1_x>>),
                            PageOf(<<Arn_s1_y>>)>>)
T_one == TagIndex(TRUE, <<PageOf(<<Arn_s2_z>>)>>)
T_empty == TagIndex(TRUE, <<PageOf(<<>>)>>)
T_fail1 == TagIndex(TRUE, <<PageError>>)
T_fail2 == TagIndex(TRUE, <<PageOf(<<Arn_s1_x, Arn_s1_y>>), PageError>>)
T_noclient == TagIndex(FALSE, <<>>)
TagIndexes == {T_three, T_one, T_empty, T_fail1, T_fail2, T_noclient}

Pairs == Services \X Regions

\* whole-account inputs for the runs over several regions and services
Scenarios ==
    { \* only (s1, r1) finds resources
      [clients |-> [p \in Pairs |->
                     UniformClient(p[1], TRUE,
                        IF p = <<"s1", "r1">> THEN "ItemsToken" ELSE "CountOnly")],
       tags |-> [r \in Regions |-> IF r = "r1" THEN T_three ELSE T_empty]],
      \* everything finds resources, which the tag index of the region holds too
      [clients |-> [p \in Pairs |-> UniformClient(p[1], TRUE, "Topics")],
       tags |-> [r \in Regions |-> T_one]],
      \* no client for s1 in r1
      [clients |-> [p \in Pairs |->
                     UniformClient(p[1], p # <<"s1", "r1">>, "ItemsToken")],
       tags |-> [r \in Regions |-> IF r = "r1" THEN T_noclient ELSE T_one]],
      \* every call in r1 fails with a network error
      [clients |-> [p \in Pairs |->
                     UniformClient(p[1], TRUE,
                        IF p[2] = "r1" THEN "EndpointConnectionError" ELSE "EmptyNames")],
       tags |-> [r \in Regions |-> IF r = "r1" THEN T_fail2 ELSE T_one]] }

\* the region lists and service lists main() can end up with: a prefix of the
\* catalog, or a user-supplied list that names an entry twice or out of order
RegionLists ==
    { SubSeq(RegionCatalog, 1, n) : n \in 0..MaxRegions } \cup { <<"r1", "r1">> }
ServiceLists ==
    { SubSeq(ServiceCatalog, 1, n) : n \in 0..MaxServices }
    \cup { <<"s1", "s1">>, <<"s2", "s1">> }

----------------------------------------------------------------------------
(* Pure parts of the scanners *)

\* mutation: every name that starts with "get" is taken
IsListOperation_AnyGet(operation_name) ==
    LET op_name == ToLower(operation_name)
    IN  \/ StartsWith(op_name, S_list)
        \/ StartsWith(op_name, S_describe)
        \/ StartsWith(op_name, S_get)

\* the test of get_list_operations on one operation name
IsListOperation(operation_name) ==
    LET op_name == ToLower(operation_name)
    IN  \/ StartsWith(op_name, S_list)
        \/ StartsWith(op_name, S_describe)
        \/ (StartsWith(op_name, S_get) /\ (Contains(op_name, S_list) \/ Contains(op_name, S_all)))

\* get_list_operations(client): an unreadable service model leaves the list empty
get_list_operations(client, s) ==
    IF client.model THEN SelectSeq(OperationNames(s), IsListOperation) ELSE <<>>

\* mutation: only the non-empty lists are kept
KeepsField_NonEmptyOnly(key, value) == value.isList /\ Len(value.items) > 0

\* mutation: every list is kept, the empty ones too
KeepsField_AnyList(key, value) ==
    \/ value.isList
    \/ \E suffix \in ResourceSuffixes : EndsWith(ToLower(key), suffix)

\* the test that keeps one field of a response
KeepsField(key, value) ==
    \/ (value.isList /\ Len(value.items) > 0)
    \/ \E suffix \in ResourceSuffixes : EndsWith(ToLower(key), suffix)

\* filtered_response
FilteredResponse(response) ==
    [key \in {k \in DOMAIN response : KeepsField(k, response[k])} |-> response[key]]

\* mutation: the loop has no list of operations to skip
NextCallable_NoSkip(ops, i) == i

\* the next index at or after i of an operation that is not skipped
RECURSIVE NextCallable(_, _)
NextCallable(ops, i) ==
    IF i > Len(ops) THEN i
    ELSE IF ops[i] \in SkippedOperations THEN NextCallable(ops, i + 1) ELSE i

\* mutation: ClientError is left out of the silent handler
SkippedSilently_NoClientError(e) ==
    IsInstance(e, {"ParamValidationError", "OperationNotPageableError"})

\* except (ClientError, ParamValidationError, OperationNotPageableError): pass
SkippedSilently(e) ==
    IsInstance(e, {"ClientError", "ParamValidationError", "OperationNotPageableError"})

\* mutation: the loop body has no handler for other exceptions
ReportedAndContinued_None(e) == FALSE

\* except Exception as e: print(...) inside the loop over the operations
ReportedAndContinued(e) == IsInstance(e, {"Exception"})

\* mutation: the scanner has no outer handler
CaughtByScanner_None(e) == FALSE

\* except Exception as e: print(...) around the body of discover_resources_for_service
CaughtByScanner(e) == IsInstance(e, {"Exception"})

\* except Exception as e: print(...); return [] of get_tagged_resources
CaughtByTagScanner(e) == IsInstance(e, {"Exception"})

\* what boto3.client raises when it cannot make a client
ClientConstructionError == "NoRegionError"

\* a line of diagnostics; task is <<ri, ti>>, ti = 0 for the tag scan
Diagnostic(kind, service, operation, region, task) ==
    [kind |-> kind, service |-> service, operation |-> operation,
     region |-> region, task |-> task]

\* mutation: the map is replaced by the newest result instead of extended
MergeResult_Overwrite(rr, service_name, service_resources) ==
    IF service_resources # EmptyMap THEN Put(EmptyMap, service_name, service_resources) ELSE rr

\* mutation: the result is stored without the test for emptiness
MergeResult_KeepEmpty(rr, service_name, service_resources) ==
    Put(rr, service_name, service_resources)

\* if service_resources: region_resources[service_name] = service_resources
MergeResult(rr, service_name, service_resources) ==
    IF service_resources # EmptyMap THEN Put(rr, service_name, service_resources) ELSE rr

\* [resource["ResourceARN"] for resource in tagged_resources]
ArnsOf(resources) == [k \in 1..Len(resources) |-> resources[k].ResourceARN]

\* the by_service grouping of get_tagged_resources raises when an ARN has no
\* third segment
GroupingRaises(resources) ==
    \E k \in 1..Len(resources) : Len(Split(resources[k].ResourceARN, ":")) < 3

\* by_service
ByService(resources) ==
    LET seg(k) == Split(resources[k].ResourceARN, ":")[3]
    IN  [svc \in {seg(k) : k \in 1..Len(resources)} |->
            ArnsOf(SelectSeq(resources, LAMBDA r : Split(r.ResourceARN, ":")[3] = svc))]

----------------------------------------------------------------------------
(* State *)

inputs == <<regions, services, threads, world, tagWorld>>
tagVars == <<tagClient, tagPage, tagAcc>>

\* main is running and is at position p
MainAt(p) == pc = p /\ exitCode = -1

NewTask(service, region) ==
    [service |-> service, region |-> region, st |-> "queued", yielded |-> FALSE,
     ops |-> <<>>, i |-> 0, inflight |-> FALSE, resources |-> EmptyMap,
     invoked |-> <<>>, raised |-> FALSE]

\* the tasks submitted to the executor of the region at index r
TasksOf(r) == {t \in DOMAIN tasks : t[1] = r}

Init ==
    /\ \/ \E sc \in Scenarios :
            /\ world = sc.clients
            /\ tagWorld = sc.tags
            /\ regions \in RegionLists
            /\ services \in ServiceLists
            /\ threads \in 0..MaxThreads
       \/ \E s \in Services : \E c \in ProbedClients(s) : \E t \in TagIndexes :
            /\ world = [p \in Pairs |->
                          IF p = <<s, "r1">> THEN c ELSE UniformClient(p[1], TRUE, "CountOnly")]
            /\ tagWorld = [r \in Regions |-> IF r = "r1" THEN t ELSE T_empty]
            /\ regions = <<"r1">>
            /\ services = <<s>>
            /\ threads = 1
    /\ pc = "start"
    /\ exitCode = -1
    /\ credentials_valid = "unset"
    /\ ri = 0
    /\ tagClient = FALSE
    /\ tagPage = 0
    /\ tagAcc = <<>>
    /\ tagged_resources = <<>>
    /\ si = 0
    /\ tasks = EmptyMap
    /\ region_resources = EmptyMap
    /\ all_results = [metadata |-> [regions_scanned |-> regions,
                                    services_scanned |-> services],
                      resources_by_region |-> EmptyMap]
    /\ total_tagged_resources = -1
    /\ output = <<>>
    /\ stdout = {}

----------------------------------------------------------------------------
(* main: the credential pre-flight *)

\* what sts get_caller_identity can do
CredentialOutcomes == {"ok", "ClientError", "NoCredentialsError", "EndpointConnectionError"}

\* validate_aws_credentials: "true", "false", or "raise" for an exception it
\* does not catch
validate_aws_credentials(o) ==
    IF o = "ok" THEN "true"
    ELSE IF IsInstance(o, {"ClientError"}) \/ IsInstance(o, {"NoCredentialsError"}) THEN "false"
    ELSE "raise"

\* mutation: the result of the pre-flight is not looked at
MayProceed_Always(result) == TRUE

\* if not validate_aws_credentials(): sys.exit(1)
MayProceed(result) == result = "true"

ValidateCredentials ==
    /\ MainAt("start")
    /\ \E o \in CredentialOutcomes :
         LET result == validate_aws_credentials(o)
         IN  /\ credentials_valid' = result
             /\ IF result = "raise"
                THEN pc' = pc /\ exitCode' = 1
                ELSE IF MayProceed(result)
                     THEN pc' = "region_loop" /\ exitCode' = exitCode
                     ELSE pc' = pc /\ exitCode' = 1
    /\ UNCHANGED <<inputs, ri, tagVars, tagged_resources, si, tasks, region_resources,
                   all_results, total_tagged_resources, output, stdout>>

----------------------------------------------------------------------------
(* main: for region in regions *)

\* mutation: the tag scan of the region is left out
RegionEntry_NoTagScan == "executor"

\* the first thing main does for a region: tagged_resources = get_tagged_resources(region)
RegionEntry == "tag_client"

NextRegion ==
    /\ MainAt("region_loop")
    /\ IF ri < Len(regions)
       THEN /\ ri' = ri + 1
            /\ pc' = RegionEntry
       ELSE /\ ri' = ri
            /\ pc' = "summary"
    /\ tagClient' = FALSE
    /\ tagPage' = 0
    /\ tagAcc' = <<>>
    /\ UNCHANGED <<inputs, credentials_valid, exitCode, tagged_resources, si, tasks, region_resources,
                   all_results, total_tagged_resources, output, stdout>>

----------------------------------------------------------------------------
(* get_tagged_resources(region) *)

\* mutation: the handler returns the records fetched before the failure
TagScanFails_Partial(e) ==
    /\ stdout' = stdout \cup {Diagnostic("tagged", "", <<>>, regions[ri], <<ri, 0>>)}
    /\ tagged_resources' = tagAcc
    /\ pc' = "executor"
    /\ exitCode' = exitCode

\* an exception e inside get_tagged_resources: caught, reported, [] returned;
\* uncaught, it ends main
TagScanFails(e) ==
    IF CaughtByTagScanner(e)
    THEN /\ stdout' = stdout \cup {Diagnostic("tagged", "", <<>>, regions[ri], <<ri, 0>>)}
         /\ tagged_resources' = <<>>
         /\ pc' = "executor"
         /\ exitCode' = exitCode
    ELSE /\ stdout' = stdout
         /\ tagged_resources' = tagged_resources
         /\ pc' = pc
         /\ exitCode' = 1

TagMakeClient ==
    /\ MainAt("tag_client")
    /\ IF tagWorld[regions[ri]].ctor
       THEN /\ tagClient' = TRUE
            /\ pc' = "tag_pages"
            /\ UNCHANGED <<stdout, tagged_resources, exitCode>>
       ELSE /\ tagClient' = FALSE
            /\ TagScanFails(ClientConstructionError)
    /\ UNCHANGED <<inputs, credentials_valid, ri, tagPage, tagAcc, si, tasks, region_resources,
                   all_results, total_tagged_resources, output>>

\* mutation: a page replaces what the earlier pages gave
Extend_LastPage(resources, records) == records

\* resources.extend(page['ResourceTagMappingList'])
Extend(resources, records) == resources \o records

\* one page of paginator.paginate(ResourcesPerPage=100)
TagFetchPage ==
    /\ MainAt("tag_pages")
    /\ tagPage < Len(tagWorld[regions[ri]].pages)
    /\ LET page == tagWorld[regions[ri]].pages[tagPage + 1]
       IN  IF page.ok
           THEN /\ tagAcc' = Extend(tagAcc, page.records)
                /\ tagPage' = tagPage + 1
                /\ UNCHANGED <<pc, stdout, tagged_resources, exitCode>>
           ELSE /\ tagAcc' = tagAcc
                /\ tagPage' = tagPage
                /\ TagScanFails("ClientError")
    /\ UNCHANGED <<inputs, credentials_valid, ri, tagClient, si, tasks, region_resources,
                   all_results, total_tagged_resources, output>>

\* the pages are exhausted: group by service and return resources
TagReturn ==
    /\ MainAt("tag_pages")
    /\ tagPage = Len(tagWorld[regions[ri]].pages)
    /\ IF GroupingRaises(tagAcc)
       THEN TagScanFails("IndexError")
       ELSE /\ tagged_resources' = tagAcc
            /\ pc' = "executor"
            /\ UNCHANGED <<stdout, exitCode>>
    /\ UNCHANGED <<inputs, credentials_valid, ri, tagVars, si, tasks, region_resources,
                   all_results, total_tagged_resources, output>>

----------------------------------------------------------------------------
(* main: the fan-out over the services of one region *)

\* mutation: the map of the previous region is kept and filled further
NewRegionResources_Kept(previous) == previous

\* region_resources = {}: every region starts with a map of its own
NewRegionResources(previous) == EmptyMap

\* with ThreadPoolExecutor(max_workers=args.threads): max_workers <= 0 raises
\* ValueError, which nothing catches
CreateExecutor ==
    /\ MainAt("executor")
    /\ region_resources' = NewRegionResources(region_resources)
    /\ si' = 0
    /\ IF threads <= 0
       THEN pc' = pc /\ exitCode' = 1
       ELSE /\ pc' = IF Len(services) = 0 THEN "as_completed" ELSE "submit"
            /\ exitCode' = exitCode
    /\ UNCHANGED <<inputs, credentials_valid, ri, tagVars, tagged_resources, tasks,
                   all_results, total_tagged_resources, output, stdout>>

\* executor.submit(discover_resources_for_service, service, region)
Submit ==
    /\ MainAt("submit")
    /\ si < Len(services)
    /\ tasks' = Put(tasks, <<ri, si + 1>>, NewTask(services[si + 1], regions[ri]))
    /\ si' = si + 1
    /\ pc' = IF si + 1 = Len(services) THEN "as_completed" ELSE "submit"
    /\ UNCHANGED <<inputs, credentials_valid, exitCode, ri, tagVars, tagged_resources, region_resources,
                   all_results, total_tagged_resources, output, stdout>>

\* mutation: the futures are read in submission order without waiting
Completed_Any(task) == TRUE

\* as_completed yields a future only when its task has finished
Completed(task) == task.st = "done"

\* for future in as_completed(...): future.result(); merge
Collect(t) ==
    /\ MainAt("as_completed")
    /\ t \in TasksOf(ri)
    /\ Completed(tasks[t])
    /\ ~tasks[t].yielded
    /\ tasks' = [tasks EXCEPT ![t].yielded = TRUE]
    /\ IF tasks[t].raised
       THEN /\ pc' = pc
            /\ exitCode' = 1
            /\ region_resources' = region_resources
       ELSE /\ pc' = pc
            /\ exitCode' = exitCode
            /\ region_resources' =
                 MergeResult(region_resources, tasks[t].service, tasks[t].resources)
    /\ UNCHANGED <<inputs, credentials_valid, ri, tagVars, tagged_resources, si,
                   all_results, total_tagged_resources, output, stdout>>

\* mutation: the executor is shut down without waiting and the futures are
\* read as far as they are done
FanoutComplete_NoWait(r) == \A t \in TasksOf(r) : tasks[t].st = "done" => tasks[t].yielded

\* as_completed has yielded every future and the with block has waited for
\* every task of the region
FanoutComplete(r) == \A t \in TasksOf(r) : tasks[t].st = "done" /\ tasks[t].yielded

ExecutorShutdown ==
    /\ MainAt("as_completed")
    /\ FanoutComplete(ri)
    /\ pc' = "store"
    /\ UNCHANGED <<inputs, credentials_valid, exitCode, ri, tagVars, tagged_resources, si, tasks,
                   region_resources, all_results, total_tagged_resources, output, stdout>>

\* an identifier is among the topics some operation of some service returned
Mentioned(arn, resources) ==
    \E s \in DOMAIN resources : \E op \in DOMAIN resources[s] :
        /\ F_Topics \in DOMAIN resources[s][op]
        /\ arn \in Range(resources[s][op][F_Topics].items)

\* mutation: an identifier the service scan found is dropped from the tagged ones
RegionResult_Dedup(tagged, resources) ==
    [tagged_resources |->
        ArnsOf(SelectSeq(tagged, LAMBDA r : ~Mentioned(r.ResourceARN, resources))),
     all_resources |-> resources]

\* the RegionResult main builds
RegionResult(tagged, resources) ==
    [tagged_resources |-> ArnsOf(tagged), all_resources |-> resources]

\* all_results["resources_by_region"][region] = {...}
StoreRegion ==
    /\ MainAt("store")
    /\ all_results' = [all_results EXCEPT !.resources_by_region =
                          Put(@, regions[ri], RegionResult(tagged_resources, region_resources))]
    /\ pc' = "region_loop"
    /\ UNCHANGED <<inputs, credentials_valid, exitCode, ri, tagVars, tagged_resources, si, tasks,
                   region_resources, total_tagged_resources, output, stdout>>

----------------------------------------------------------------------------
(* discover_resources_for_service(service_name, region), run by a pool worker *)

Running(r) == {t \in TasksOf(r) : tasks[t].st = "running"}
Queued(r) == {t \in TasksOf(r) : tasks[t].st = "queued"}

\* mutation: the pool starts a thread for every task it is given
WorkerTakes_NoLimit(t) ==
    /\ t \in DOMAIN tasks
    /\ tasks[t].st = "queued"

\* a worker of the region's pool is free and t is the first task in its queue
WorkerTakes(t) ==
    /\ t \in DOMAIN tasks
    /\ tasks[t].st = "queued"
    /\ Cardinality(Running(t[1])) < threads
    /\ \A u \in Queued(t[1]) : t[2] <= u[2]

\* an exception e reaches the outer handler of the scanner: caught, the task
\* returns what it has; uncaught, the future raises
ScannerFails(task, e) ==
    [task EXCEPT !.st = "done", !.inflight = FALSE, !.raised = ~CaughtByScanner(e)]

ScannerDiagnostics(t, e) ==
    IF CaughtByScanner(e)
    THEN {Diagnostic("initializing", tasks[t].service, <<>>, tasks[t].region, t)}
    ELSE {}

\* the number of times x occurs in seq
Count(seq, x) == Cardinality({j \in 1..Len(seq) : seq[j] = x})

\* mutation: an operation that has been called once is called a second time
ContinueAt_RetryOnce(task, i) ==
    LET k == IF i > 1 /\ Count(task.invoked, task.ops[i - 1]) < 2 THEN i - 1 ELSE i
        j == NextCallable(task.ops, k)
    IN  [task EXCEPT !.i = j, !.inflight = FALSE,
                     !.st = IF j > Len(task.ops) THEN "done" ELSE "running"]

\* the loop goes on at index i: the next operation that is not skipped, or return
ContinueAt(task, i) ==
    LET j == NextCallable(task.ops, i)
    IN  [task EXCEPT !.i = j, !.inflight = FALSE,
                     !.st = IF j > Len(task.ops) THEN "done" ELSE "running"]

\* boto3.client(service_name, region_name=region); get_list_operations(client)
BeginTask(t) ==
    /\ WorkerTakes(t)
    /\ LET client == world[<<tasks[t].service, tasks[t].region>>]
       IN  IF client.ctor
           THEN /\ tasks' = [tasks EXCEPT ![t] =
                               ContinueAt([tasks[t] EXCEPT !.ops =
                                    get_list_operations(client, tasks[t].service)], 1)]
                /\ stdout' = stdout
           ELSE /\ tasks' = [tasks EXCEPT ![t] = ScannerFails(@, ClientConstructionError)]
                /\ stdout' = stdout \cup ScannerDiagnostics(t, ClientConstructionError)
    /\ UNCHANGED <<inputs, pc, credentials_valid, exitCode, ri, tagVars, tagged_resources, si,
                   region_resources, all_results, total_tagged_resources, output>>

\* response = getattr(client, operation)(): the call goes out
CallOperation(t) ==
    /\ t \in DOMAIN tasks
    /\ tasks[t].st = "running"
    /\ ~tasks[t].inflight
    /\ tasks' = [tasks EXCEPT ![t].inflight = TRUE,
                              ![t].invoked = Append(@, tasks[t].ops[tasks[t].i])]
    /\ UNCHANGED <<inputs, pc, credentials_valid, exitCode, ri, tagVars, tagged_resources, si,
                   region_resources, all_results, total_tagged_resources, output, stdout>>

\* the call returns a response or raises; the rest of the loop body runs
ReturnOperation(t) ==
    /\ t \in DOMAIN tasks
    /\ tasks[t].st = "running"
    /\ tasks[t].inflight
    /\ LET task == tasks[t]
           operation == task.ops[task.i]
           o == world[<<task.service, task.region>>].out[operation]
       IN  IF o \in ResponseNames
           THEN LET filtered_response == FilteredResponse(Response(o))
                IN  /\ tasks' = [tasks EXCEPT ![t] =
                          ContinueAt([task EXCEPT !.resources =
                                         IF filtered_response # EmptyMap
                                         THEN Put(@, operation, filtered_response)
                                         ELSE @], task.i + 1)]
                    /\ stdout' = stdout
           ELSE IF SkippedSilently(o)
           THEN /\ tasks' = [tasks EXCEPT ![t] = ContinueAt(task, task.i + 1)]
                /\ stdout' = stdout
           ELSE IF ReportedAndContinued(o)
           THEN /\ tasks' = [tasks EXCEPT ![t] = ContinueAt(task, task.i + 1)]
                /\ stdout' = stdout \cup
                     {Diagnostic("operation", task.service, operation, task.region, t)}
           ELSE /\ tasks' = [tasks EXCEPT ![t] = ScannerFails(task, o)]
                /\ stdout' = stdout \cup ScannerDiagnostics(t, o)
    /\ UNCHANGED <<inputs, pc, credentials_valid, exitCode, ri, tagVars, tagged_resources, si,
                   region_resources, all_results, total_tagged_resources, output>>

----------------------------------------------------------------------------
(* main: the summary and the output file *)

RECURSIVE SumTagged(_, _)
SumTagged(results, k) ==
    IF k = 0 THEN 0
    ELSE Len(results.resources_by_region[regions[k]].tagged_resources)
         + SumTagged(results, k - 1)

\* total_tagged_resources = sum(len(...) for region in regions)
Summarise ==
    /\ MainAt("summary")
    /\ total_tagged_resources' = SumTagged(all_results, Len(regions))
    /\ pc' = "dump"
    /\ UNCHANGED <<inputs, credentials_valid, exitCode, ri, tagVars, tagged_resources, si, tasks,
                   region_resources, all_results, output, stdout>>

\* json.dump(all_results, f, ...), then main returns
Dump ==
    /\ MainAt("dump")
    /\ output' = <<all_results>>
    /\ pc' = "done"
    /\ exitCode' = 0
    /\ UNCHANGED <<inputs, credentials_valid, ri, tagVars, tagged_resources, si, tasks,
                   region_resources, all_results, total_tagged_resources, stdout>>

----------------------------------------------------------------------------

TaskIds == (1..(MaxRegions + 1)) \X (1..(MaxServices + 1))

Next ==
    \/ ValidateCredentials
    \/ NextRegion
    \/ TagMakeClient
    \/ TagFetchPage
    \/ TagReturn
    \/ CreateExecutor
    \/ Submit
    \/ \E t \in DOMAIN tasks : Collect(t)
    \/ ExecutorShutdown
    \/ StoreRegion
    \/ \E t \in DOMAIN tasks : BeginTask(t)
    \/ \E t \in DOMAIN tasks : CallOperation(t)
    \/ \E t \in DOMAIN tasks : ReturnOperation(t)
    \/ Summarise
    \/ Dump

Spec == Init /\ [][Next]_vars

\* main's own steps, and the steps of the worker that runs task t
MainStep ==
    \/ ValidateCredentials
    \/ NextRegion
    \/ TagMakeClient
    \/ TagFetchPage
    \/ TagReturn
    \/ CreateExecutor
    \/ Submit
    \/ \E t \in DOMAIN tasks : Collect(t)
    \/ ExecutorShutdown
    \/ StoreRegion
    \/ Summarise
    \/ Dump

TaskStep(t) == BeginTask(t) \/ CallOperation(t) \/ ReturnOperation(t)

\* main and the pool's workers keep running, and every outbound call returns
FairSpec ==
    /\ Spec
    /\ WF_vars(MainStep)
    /\ \A t \in TaskIds : WF_vars(TaskStep(t))

----------------------------------------------------------------------------
(* Properties *)

resources_by_region == all_results.resources_by_region

\* every service of the list was submitted for the region at index k and every
\* one of these tasks has completed
AllTasksCompleted(k) ==
    /\ Cardinality(TasksOf(k)) = Len(services)
    /\ \A t \in TasksOf(k) : tasks[t].st = "done"

\* C1: regions never overlap: once main has entered the region at index k >= 2
\* (its tag scan is about to start) or a task of that region exists, every
\* service of the region at index k-1 has been submitted, each of these tasks
\* has completed, and the RegionResult of that region is in the snapshot.
C1_RegionsSequential ==
    \A k \in 2..Len(regions) :
        (ri >= k \/ TasksOf(k) # {}) =>
            /\ AllTasksCompleted(k - 1)
            /\ regions[k - 1] \in DOMAIN resources_by_region

C1_Witness ==
    /\ ri = 2
    /\ regions[1] # regions[2]
    /\ Cardinality(TasksOf(1)) = 2
    /\ \E t \in TasksOf(2) : tasks[t].st = "running" /\ tasks[t].inflight

\* the phase of the region at index k, read off main's position
Phase(k) ==
    IF k > ri THEN "PENDING"
    ELSE IF k < ri THEN "MERGED"
    ELSE IF pc \in {"tag_client", "tag_pages"} THEN "TAG_SCAN"
    ELSE IF pc \in {"executor", "submit", "as_completed", "store"} THEN "SERVICE_FANOUT"
    ELSE "MERGED"

PhaseSteps ==
    { <<"PENDING", "TAG_SCAN">>, <<"TAG_SCAN", "SERVICE_FANOUT">>,
      <<"SERVICE_FANOUT", "MERGED">> }

\* C2: every step leaves the phase of each region alone or moves it one step
\* along PENDING, TAG_SCAN, SERVICE_FANOUT, MERGED; a task is submitted for a
\* region only in SERVICE_FANOUT (its tag scan has returned); and the snapshot
\* is written only for the current region, in SERVICE_FANOUT, when all of the
\* region's tasks have been submitted and have completed.
C2_PhaseOrder ==
    [][ \A k \in 1..Len(regions) :
          /\ Phase(k)' # Phase(k) => <<Phase(k), Phase(k)'>> \in PhaseSteps
          /\ TasksOf(k)' # TasksOf(k) =>
                /\ Phase(k) = "SERVICE_FANOUT"
                /\ Phase(k)' = "SERVICE_FANOUT"
          /\ (resources_by_region' # resources_by_region /\ k = ri) =>
                /\ Phase(k) = "SERVICE_FANOUT"
                /\ Phase(k)' = "MERGED"
                /\ AllTasksCompleted(k)
                /\ DOMAIN resources_by_region' = DOMAIN resources_by_region \cup {regions[k]}
      ]_vars

C2_Witness ==
    /\ pc = "done"
    /\ Len(regions) = 2
    /\ \A k \in 1..2 : Phase(k) = "MERGED" /\ AllTasksCompleted(k)
    /\ Len(services) = 2

\* C3: a service is a key of a region's all_resources (in the snapshot, and in
\* region_resources while the region is merged) only with a non-empty
\* ServiceScanResult, which a completed task of that service and region returned.
NonEmptyResults(region, all_resources) ==
    \A s \in DOMAIN all_resources :
        /\ all_resources[s] # EmptyMap
        /\ \E t \in DOMAIN tasks :
              /\ tasks[t].service = s
              /\ tasks[t].region = region
              /\ tasks[t].st = "done"
              /\ tasks[t].resources = all_resources[s]

C3_NoEmptyService ==
    /\ \A r \in DOMAIN resources_by_region :
          NonEmptyResults(r, resources_by_region[r].all_resources)
    /\ pc \in {"submit", "as_completed", "store"} =>
          NonEmptyResults(regions[ri], region_resources)

C3_Witness ==
    \E r \in DOMAIN resources_by_region : \E t \in DOMAIN tasks :
        /\ tasks[t].region = r
        /\ tasks[t].yielded
        /\ tasks[t].resources = EmptyMap
        /\ tasks[t].service \notin DOMAIN resources_by_region[r].all_resources
        /\ resources_by_region[r].all_resources # EmptyMap

----------------------------------------------------------------------------
(* What one scanner and one tag scan yield, stated without the schedule *)

ClientOf(task) == world[<<task.service, task.region>>]

\* the operations a scanner calls, in classifier order
CallableOps(client, s) ==
    SelectSeq(get_list_operations(client, s), LAMBDA op : op \notin SkippedOperations)

\* the ServiceScanResult of service s in region r
ExpectedScan(s, r) ==
    LET client == world[<<s, r>>]
        found == {op \in Range(CallableOps(client, s)) :
                    /\ client.out[op] \in ResponseNames
                    /\ FilteredResponse(Response(client.out[op])) # EmptyMap}
    IN  IF client.ctor
        THEN [op \in found |-> FilteredResponse(Response(client.out[op]))]
        ELSE EmptyMap

RECURSIVE ConcatPages(_, _)
ConcatPages(pages, n) ==
    IF n = 0 THEN <<>> ELSE ConcatPages(pages, n - 1) \o ArnsOf(pages[n].records)

\* the taggedResourceIds of region r
ExpectedTagged(r) ==
    LET index == tagWorld[r]
    IN  IF index.ctor /\ \A k \in 1..Len(index.pages) : index.pages[k].ok
        THEN ConcatPages(index.pages, Len(index.pages))
        ELSE <<>>

ExpectedRegion(r) ==
    [tagged_resources |-> ExpectedTagged(r),
     all_resources |-> [s \in {x \in Range(services) : ExpectedScan(x, r) # EmptyMap} |->
                           ExpectedScan(s, r)]]

ExpectedSnapshot ==
    [metadata |-> [regions_scanned |-> regions, services_scanned |-> services],
     resources_by_region |-> [r \in Range(regions) |-> ExpectedRegion(r)]]

\* C4: the snapshot handed to the output is a function of the regions, the
\* services and the outcomes of the calls alone: it is the same whatever the
\* number of workers and whatever the order in which the tasks ran and completed.
C4_SnapshotDeterministic ==
    pc = "done" => output = <<ExpectedSnapshot>>

C4_Witness ==
    /\ pc = "done"
    /\ threads >= 2
    /\ \E r \in DOMAIN output[1].resources_by_region :
          Cardinality(DOMAIN output[1].resources_by_region[r].all_resources) = 2

----------------------------------------------------------------------------
(* The invocations of a scanner *)

\* the positions in task.invoked of the calls that have returned
Returned(task) ==
    {j \in 1..Len(task.invoked) : j < Len(task.invoked) \/ ~task.inflight}

OperationDiagnostic(t, op) ==
    Diagnostic("operation", tasks[t].service, op, tasks[t].region, t)

\* the failed call is reported, leaves no entry, and the scanner still calls
\* every operation it would have called
ReportedAndHarmless(t, op) ==
    /\ OperationDiagnostic(t, op) \in stdout
    /\ op \notin DOMAIN tasks[t].resources
    /\ tasks[t].st = "done" =>
          tasks[t].invoked = CallableOps(ClientOf(tasks[t]), tasks[t].service)

\* C5 as stated: every failure other than required-parameter validation or
\* non-pageable rejection, service errors (ClientError) included, is reported
\* with (service, operation, region), adds no entry and does not stop the scan.
C5_Original ==
    \A t \in DOMAIN tasks : \A j \in Returned(tasks[t]) :
        LET op == tasks[t].invoked[j]
            o == ClientOf(tasks[t]).out[op]
        IN  (o \in ExceptionNames
               /\ o \notin {"ParamValidationError", "OperationNotPageableError"})
            => ReportedAndHarmless(t, op)

\* C5 amended: every failure other than ClientError, ParamValidationError or
\* OperationNotPageableError is reported with (service, operation, region),
\* adds no entry and does not stop the scan.
C5_UnexpectedReported ==
    \A t \in DOMAIN tasks : \A j \in Returned(tasks[t]) :
        LET op == tasks[t].invoked[j]
            o == ClientOf(tasks[t]).out[op]
        IN  (o \in ExceptionNames
               /\ o \notin {"ClientError", "ParamValidationError", "OperationNotPageableError"})
            => ReportedAndHarmless(t, op)

C5_Witness ==
    \E t \in DOMAIN tasks :
        /\ tasks[t].st = "done"
        /\ Len(tasks[t].invoked) = 2
        /\ ClientOf(tasks[t]).out[tasks[t].invoked[1]] = "EndpointConnectionError"
        /\ OperationDiagnostic(t, tasks[t].invoked[1]) \in stdout
        /\ tasks[t].invoked[2] \in DOMAIN tasks[t].resources

ExpectedSkips == {"ClientError", "ParamValidationError", "OperationNotPageableError"}

\* C6: a call that ends in ClientError, ParamValidationError or
\* OperationNotPageableError prints nothing and adds no entry; a scanner whose
\* client was made and whose calls all ended that way returns the empty result
\* and has printed nothing.
C6_ExpectedSkipSilent ==
    \A t \in DOMAIN tasks :
        /\ \A j \in Returned(tasks[t]) :
              LET op == tasks[t].invoked[j]
              IN  ClientOf(tasks[t]).out[op] \in ExpectedSkips =>
                    /\ OperationDiagnostic(t, op) \notin stdout
                    /\ op \notin DOMAIN tasks[t].resources
        /\ ( /\ tasks[t].st = "done"
             /\ ClientOf(tasks[t]).ctor
             /\ \A j \in 1..Len(tasks[t].invoked) :
                   ClientOf(tasks[t]).out[tasks[t].invoked[j]] \in ExpectedSkips )
           => /\ tasks[t].resources = EmptyMap
              /\ \A d \in stdout : d.task # t

C6_Witness ==
    \E t \in DOMAIN tasks :
        /\ tasks[t].st = "done"
        /\ Len(tasks[t].invoked) = 2
        /\ ClientOf(tasks[t]).out[tasks[t].invoked[1]] = "ClientError"
        /\ ClientOf(tasks[t]).out[tasks[t].invoked[2]] = "ParamValidationError"
        /\ tasks[t].resources = EmptyMap

\* C7: no future ever raises, and main ends with a failure only at the
\* pre-flight or at the construction of the pool, never because of a scanner
\* or a tag scan; when main is done, every service of every region had its
\* task, and each task returned exactly what its own client yields, whatever
\* failed elsewhere; a failed tag scan returned the empty sequence.
C7_FailuresContained ==
    /\ \A t \in DOMAIN tasks : ~tasks[t].raised
    /\ exitCode = 1 => (pc = "start" \/ (pc = "executor" /\ threads <= 0))
    /\ pc = "done" =>
          \A k \in 1..Len(regions) :
              /\ AllTasksCompleted(k)
              /\ \A t \in TasksOf(k) :
                    tasks[t].resources = ExpectedScan(tasks[t].service, tasks[t].region)
    /\ \A d \in stdout :
          (d.kind = "tagged" /\ d.task[1] = ri
             /\ pc \in {"executor", "submit", "as_completed", "store"})
          => tagged_resources = <<>>

C7_Witness ==
    /\ pc = "done"
    /\ \E t \in DOMAIN tasks : \E u \in DOMAIN tasks :
          /\ ~ClientOf(tasks[t]).ctor
          /\ tasks[u].region = tasks[t].region
          /\ tasks[u].resources # EmptyMap
          /\ \E d \in stdout : d.kind = "tagged" /\ d.region = tasks[t].region
    /\ \E v \in TasksOf(2) :
          /\ tasks[v].region # regions[1]
          /\ tasks[v].resources # EmptyMap

----------------------------------------------------------------------------
(* Termination and the pre-flight *)

\* main has merged every region and handed the snapshot over, with an entry
\* for every region of metadata.regions_scanned
HandedOver ==
    /\ pc = "done"
    /\ \A k \in 1..Len(regions) : Phase(k) = "MERGED"
    /\ Len(output) = 1
    /\ \A r \in Range(output[1].metadata.regions_scanned) :
          r \in DOMAIN output[1].resources_by_region

\* C8 as stated: once the pre-flight has succeeded, if main and the workers
\* keep running and every call returns, main eventually merges every region
\* and hands over a snapshot with an entry for every region scanned.
C8_Original == (credentials_valid = "true") ~> HandedOver

\* C8 for a pool of at least one worker
C8_WithWorkers == (credentials_valid = "true" /\ threads >= 1) ~> HandedOver

\* C9: once the pre-flight has returned false, the process has exit code 1,
\* main is still where the pre-flight is called, no region was entered, no
\* tag scan was begun, no task exists and nothing has been handed over.
C9_NoStartWithoutCredentials ==
    credentials_valid = "false" =>
        /\ exitCode = 1
        /\ pc = "start"
        /\ ri = 0
        /\ ~tagClient /\ tagPage = 0
        /\ tasks = EmptyMap
        /\ output = <<>>

C9_Witness ==
    /\ credentials_valid = "false"
    /\ exitCode = 1
    /\ Len(regions) >= 1
    /\ Len(services) >= 1
    /\ threads >= 1

----------------------------------------------------------------------------
(* Invocations *)

\* the calls made so far: <<task, position in the task's invoked>>
Calls == UNION {{<<t, j>> : j \in 1..Len(tasks[t].invoked)} : t \in DOMAIN tasks}

Triple(c) == <<tasks[c[1]].service, tasks[c[1]].region, tasks[c[1]].invoked[c[2]]>>

\* a scanner calls its operations one after another in classifier order, each
\* once: invoked is a prefix of the callable operations without repetition
SerialScanner(task) ==
    /\ Len(task.invoked) <= Len(CallableOps(ClientOf(task), task.service))
    /\ task.invoked = SubSeq(CallableOps(ClientOf(task), task.service), 1, Len(task.invoked))
    /\ \A j, k \in 1..Len(task.invoked) : task.invoked[j] = task.invoked[k] => j = k

\* a call goes out only when the scanner has none outstanding
OneOutstanding ==
    \A t \in DOMAIN tasks' :
        LET before == IF t \in DOMAIN tasks THEN tasks[t].invoked ELSE <<>>
        IN  Len(tasks'[t].invoked) # Len(before) =>
              /\ t \in DOMAIN tasks
              /\ ~tasks[t].inflight
              /\ tasks'[t].inflight
              /\ Len(tasks'[t].invoked) = Len(before) + 1

\* C10 as stated: in the whole pass no (service, region, operation) is called
\* twice.
C10_Original ==
    \A c, d \in Calls : Triple(c) = Triple(d) => c = d

\* C10 amended: each scanner calls each of its operations at most once, in
\* classifier order, with at most one call outstanding; over the pass a
\* (service, region, operation) is called at most once for each occurrence of
\* the service in the service list and of the region in the region list.
C10_OncePerScanner ==
    [][ /\ OneOutstanding
        /\ \A t \in DOMAIN tasks' : SerialScanner(tasks'[t])
        /\ \A c \in Calls' :
              Cardinality({d \in Calls' : Triple(d)' = Triple(c)'})
                <= Count(services, Triple(c)'[1]) * Count(regions, Triple(c)'[2])
      ]_vars

C10_Witness ==
    \E t, u \in DOMAIN tasks :
        /\ t # u
        /\ tasks[t].service = tasks[u].service
        /\ tasks[t].region = tasks[u].region
        /\ tasks[t].st = "done" /\ tasks[u].st = "done"
        /\ Len(tasks[t].invoked) = 2 /\ Len(tasks[u].invoked) = 2

----------------------------------------------------------------------------
(* The Operation Classifier *)

\* a task whose client was made and whose service model was read
Classifies(t) ==
    /\ tasks[t].st # "queued"
    /\ ClientOf(tasks[t]).ctor
    /\ ClientOf(tasks[t]).model

\* the classifier's output as the scanner uses it: the list of
\* get_list_operations without the operations the loop skips
Classified(t) == SelectSeq(tasks[t].ops, LAMBDA op : op \notin SkippedOperations)

\* the naming policy, on the case-folded name
Qualifies(name) ==
    LET folded == ToLower(name)
    IN  \/ StartsWith(folded, S_list)
        \/ StartsWith(folded, S_describe)
        \/ /\ StartsWith(folded, S_get)
           /\ \/ Contains(folded, S_list)
              \/ Contains(folded, S_all)

\* C11: for the operation identifiers of a task's service, the classifier's
\* output is a subset of them, holds no denylisted identifier, holds exactly
\* the identifiers that qualify under the naming policy minus the denylist,
\* and is the same for every task that classifies the same identifiers.
C11_ClassifierContract ==
    \A t \in DOMAIN tasks :
        Classifies(t) =>
            LET names == Range(OperationNames(tasks[t].service))
                out == Range(Classified(t))
            IN  /\ out \subseteq names
                /\ out \cap SkippedOperations = {}
                /\ out = {n \in names : Qualifies(n)} \ SkippedOperations
                /\ \A u \in DOMAIN tasks :
                      (Classifies(u) /\ tasks[u].service = tasks[t].service)
                        => tasks[u].ops = tasks[t].ops

C11_Witness ==
    \E t, u, v \in DOMAIN tasks :
        /\ t # u
        /\ Classifies(t) /\ Classifies(u) /\ Classifies(v)
        /\ tasks[t].service = tasks[u].service
        /\ Op_list_buckets \in Range(tasks[t].ops)
        /\ Op_GetItem \in Range(OperationNames(tasks[t].service))
        /\ Classified(t) = <<Op_ListA, Op_describe_b>>
        /\ Classified(v) = <<Op_get_all_c, Op_GetLists>>

----------------------------------------------------------------------------
(* The Extractor and the ServiceScanResult *)

\* the inclusion rule for one top-level field: a non-empty sequence, or a
\* case-folded name that ends with one of the five suffixes
Included(name, value) ==
    \/ value.isList /\ value.items # <<>>
    \/ EndsWith(ToLower(name), S_list)
    \/ EndsWith(ToLower(name), S_ids)
    \/ EndsWith(ToLower(name), S_arns)
    \/ EndsWith(ToLower(name), S_names)
    \/ EndsWith(ToLower(name), S_summaries)

\* the ResourceBag of a RawResponse under the rule
Bag(R) == [name \in {f \in DOMAIN R : Included(f, R[f])} |-> R[name]]

\* the operations of service s that qualify and are not denylisted
Eligible(s) == {n \in Range(OperationNames(s)) : Qualifies(n)} \ SkippedOperations

\* C12: in every state of every scanner run, the keys of its ServiceScanResult
\* are classified, non-denylisted operations of its service that it has
\* called; no denylisted operation is ever invoked; every stored ResourceBag
\* is non-empty; and a returned call whose extraction is empty has no key.
C12_ScanResultKeys ==
    \A t \in DOMAIN tasks :
        /\ DOMAIN tasks[t].resources \subseteq Eligible(tasks[t].service)
        /\ DOMAIN tasks[t].resources \subseteq
              {tasks[t].invoked[j] : j \in Returned(tasks[t])}
        /\ \A j \in 1..Len(tasks[t].invoked) :
              tasks[t].invoked[j] \notin SkippedOperations
        /\ \A op \in DOMAIN tasks[t].resources : tasks[t].resources[op] # EmptyMap
        /\ \A j \in Returned(tasks[t]) :
              LET o == ClientOf(tasks[t]).out[tasks[t].invoked[j]]
              IN  (o \in ResponseNames /\ Bag(Response(o)) = EmptyMap)
                    => tasks[t].invoked[j] \notin DOMAIN tasks[t].resources

C12_Witness ==
    \E t \in DOMAIN tasks :
        /\ tasks[t].st = "done"
        /\ Op_list_buckets \in Range(tasks[t].ops)
        /\ tasks[t].invoked = <<Op_ListA, Op_describe_b>>
        /\ ClientOf(tasks[t]).out[Op_ListA] = "CountOnly"
        /\ DOMAIN tasks[t].resources = {Op_describe_b}

\* what the Extractor gave for a call that has returned a response: the bag
\* stored under the operation, or the empty bag, which is not stored
Extracted(t, op) ==
    IF op \in DOMAIN tasks[t].resources THEN tasks[t].resources[op] ELSE EmptyMap

\* C13: for every RawResponse R a call has returned, the Extractor's output
\* maps a subset of R's top-level field names to their unchanged values; a
\* field is in the output if and only if its value is a non-empty sequence or
\* its case-folded name ends with list, ids, arns, names or summaries; and
\* {Items: [1,2,3], NextToken: x} gives {Items: [1,2,3]}.
C13_ExtractorRule ==
    \A t \in DOMAIN tasks : \A j \in Returned(tasks[t]) :
        LET op == tasks[t].invoked[j]
            o == ClientOf(tasks[t]).out[op]
            R == Response(o)
            out == Extracted(t, op)
        IN  o \in ResponseNames =>
              /\ DOMAIN out \subseteq DOMAIN R
              /\ \A f \in DOMAIN out : out[f] = R[f]
              /\ \A f \in DOMAIN R : f \in DOMAIN out <=> Included(f, R[f])
              /\ o = "ItemsToken" => out = Put(EmptyMap, F_Items, ListValue(<<1, 2, 3>>))

C13_Witness ==
    \E t \in DOMAIN tasks :
        /\ tasks[t].st = "done"
        /\ tasks[t].invoked = <<Op_ListA, Op_describe_b>>
        /\ ClientOf(tasks[t]).out[Op_ListA] = "ItemsToken"
        /\ ClientOf(tasks[t]).out[Op_describe_b] = "ScalarArns"
        /\ tasks[t].resources[Op_ListA] = Put(EmptyMap, F_Items, ListValue(<<1, 2, 3>>))
        /\ tasks[t].resources[Op_describe_b] = Put(EmptyMap, F_TopicARNS, ScalarValue(9))

----------------------------------------------------------------------------
(* The Tag-Index Scanner *)

\* the tag index of region r returns every page
AllPagesReturned(r) ==
    /\ tagWorld[r].ctor
    /\ \A k \in 1..Len(tagWorld[r].pages) : tagWorld[r].pages[k].ok

\* the records of the first n pages, in page order
RECURSIVE RecordsOfPages(_, _)
RecordsOfPages(pages, n) ==
    IF n = 0 THEN <<>> ELSE RecordsOfPages(pages, n - 1) \o pages[n].records

\* the sum of the sizes of the first n pages
RECURSIVE SumOfPageSizes(_, _)
SumOfPageSizes(pages, n) ==
    IF n = 0 THEN 0 ELSE SumOfPageSizes(pages, n - 1) + Len(pages[n].records)

\* the identifiers of a sequence of records, in the same order
IdsOf(records) == [k \in 1..Len(records) |-> records[k].ResourceARN]

\* the tag scan of the current region has returned and its region is not stored yet
TagScanReturned == ri >= 1 /\ pc \in {"executor", "submit", "as_completed", "store"}

\* C14: when every page of a region's tag index is returned, the tag scan has
\* requested every page, returns exactly the records of all pages in page
\* order (as many as the page sizes add up to), and the region's
\* tagged_resources in the snapshot are the identifiers of these records in
\* the same order.
C14_TagPagination ==
    /\ (TagScanReturned /\ AllPagesReturned(regions[ri])) =>
          LET pages == tagWorld[regions[ri]].pages
          IN  /\ tagPage = Len(pages)
              /\ tagged_resources = RecordsOfPages(pages, Len(pages))
              /\ Len(tagged_resources) = SumOfPageSizes(pages, Len(pages))
    /\ \A r \in DOMAIN resources_by_region :
          AllPagesReturned(r) =>
            LET pages == tagWorld[r].pages
            IN  /\ resources_by_region[r].tagged_resources =
                      IdsOf(RecordsOfPages(pages, Len(pages)))
                /\ Len(resources_by_region[r].tagged_resources) =
                      SumOfPageSizes(pages, Len(pages))

C14_Witness ==
    \E r \in DOMAIN resources_by_region :
        /\ AllPagesReturned(r)
        /\ Len(tagWorld[r].pages) = 3
        /\ resources_by_region[r].tagged_resources =
              <<Arn_s1_x, Arn_s1_y, Arn_s2_z, Arn_s1_x, Arn_s1_y>>

----------------------------------------------------------------------------
(* Regions are kept apart *)

\* the tasks of the region at index k that returned a non-empty result
Finders(k) == {t \in TasksOf(k) : tasks[t].resources # EmptyMap}

\* the non-empty ServiceScanResults of the tasks run for the region at index k
ScanResultsOf(k) ==
    [s \in {tasks[t].service : t \in Finders(k)} |->
        tasks[CHOOSE t \in Finders(k) : tasks[t].service = s].resources]

\* the identifiers the tag scan of region r returns
TagIdsOf(r) ==
    IF AllPagesReturned(r)
    THEN IdsOf(RecordsOfPages(tagWorld[r].pages, Len(tagWorld[r].pages)))
    ELSE <<>>

\* C15: for every merged region of the list, its entry in the snapshot holds
\* in all_resources exactly the non-empty results of the tasks run for that
\* region, and in tagged_resources exactly the identifiers its own tag scan
\* returned; a region whose tasks all returned nothing has empty
\* all_resources, whatever the other regions found.
C15_NoLeakBetweenRegions ==
    /\ DOMAIN resources_by_region \subseteq Range(regions)
    /\ \A k \in 1..Len(regions) :
          Phase(k) = "MERGED" =>
            /\ regions[k] \in DOMAIN resources_by_region
            /\ \A t \in TasksOf(k) : tasks[t].region = regions[k]
            /\ resources_by_region[regions[k]].all_resources = ScanResultsOf(k)
            /\ resources_by_region[regions[k]].tagged_resources = TagIdsOf(regions[k])
            /\ (\A t \in TasksOf(k) : tasks[t].resources = EmptyMap)
                 => resources_by_region[regions[k]].all_resources = EmptyMap

C15_Witness ==
    /\ pc = "done"
    /\ Len(regions) = 2
    /\ Len(services) = 2
    /\ regions[1] # regions[2]
    /\ DOMAIN resources_by_region[regions[1]].all_resources = {"s1"}
    /\ resources_by_region[regions[1]].tagged_resources # <<>>
    /\ resources_by_region[regions[2]].all_resources = EmptyMap
    /\ resources_by_region[regions[2]].tagged_resources = <<>>
    /\ \A t \in TasksOf(2) : Len(tasks[t].invoked) >= 1

----------------------------------------------------------------------------
(* The worker pool *)

\* the tasks a worker is executing
Executing == {t \in DOMAIN tasks : tasks[t].st = "running"}

\* the tasks a worker takes in this step
Taken == {t \in DOMAIN tasks : tasks[t].st = "queued" /\ tasks'[t].st # "queued"}

\* C16: at every moment at most threads tasks are executing, all of them for
\* the current region while main is inside that region's pool; and a task is
\* taken from the queue only when fewer than threads tasks are executing (a
\* worker's run has returned or it has had none), one task per step.
C16_BoundedPool ==
    /\ [](/\ Cardinality(Executing) <= threads
          /\ \A t \in Executing :
                /\ t[1] = ri
                /\ tasks[t].region = regions[ri]
                /\ pc \in {"submit", "as_completed"})
    /\ [][ Taken # {} =>
            /\ Cardinality(Taken) = 1
            /\ Cardinality(Executing) < threads
            /\ Executing' \subseteq Executing \cup Taken ]_vars

C16_Witness ==
    /\ threads = 1
    /\ ri = 2
    /\ \E t, u \in TasksOf(2) :
          /\ tasks[t].st = "running" /\ tasks[t].inflight
          /\ tasks[u].st = "queued"
    /\ \A t \in TasksOf(1) : tasks[t].st = "done"
    /\ Cardinality(TasksOf(1)) = 2

----------------------------------------------------------------------------
(* Who writes what *)

\* the step is main's: no worker has moved a task
NoWorkerActs ==
    \A t \in DOMAIN tasks :
        /\ tasks'[t].resources = tasks[t].resources
        /\ tasks'[t].st = tasks[t].st
        /\ tasks'[t].invoked = tasks[t].invoked
        /\ tasks'[t].inflight = tasks[t].inflight

\* the step is the one of the worker that runs t: no other task and nothing
\* of main's moves
OnlyWorkerOf(t) ==
    /\ \A u \in DOMAIN tasks \ {t} : tasks'[u] = tasks[u]
    /\ DOMAIN tasks' = DOMAIN tasks
    /\ <<pc, ri, si, region_resources, all_results, output>>' =
         <<pc, ri, si, region_resources, all_results, output>>

\* C17: the ServiceScanResult of a task changes only in a step of that task's
\* own run, before the task has completed and before main has read it; main
\* reads a result only from a completed task, and the task does not change
\* afterwards; the region's service map and the snapshot change only in steps
\* of main in which no worker acts, the snapshot only when no task is unfinished.
C17_SingleWriter ==
    [][ /\ \A t \in DOMAIN tasks :
              /\ tasks'[t].resources # tasks[t].resources =>
                    /\ tasks[t].st = "running"
                    /\ tasks[t].inflight
                    /\ ~tasks[t].yielded
                    /\ OnlyWorkerOf(t)
              /\ (tasks'[t].yielded /\ ~tasks[t].yielded) =>
                    /\ tasks[t].st = "done"
                    /\ pc = "as_completed"
                    /\ NoWorkerActs
              /\ tasks[t].yielded => tasks'[t] = tasks[t]
        /\ region_resources' # region_resources =>
              /\ pc \in {"executor", "as_completed"}
              /\ NoWorkerActs
        /\ all_results' # all_results =>
              /\ pc = "store"
              /\ tasks' = tasks
              /\ \A t \in DOMAIN tasks : tasks[t].st = "done"
      ]_vars

C17_Witness ==
    /\ threads = 2
    /\ pc = "as_completed"
    /\ region_resources # EmptyMap
    /\ \E t, u \in TasksOf(ri) :
          /\ tasks[t].yielded
          /\ tasks[t].resources # EmptyMap
          /\ tasks[u].st = "running"
          /\ tasks[u].inflight
          /\ tasks[u].resources # EmptyMap

----------------------------------------------------------------------------
(* A tag scan that fails *)

\* the tag index of region r fails on one of its pages
FailsOnPage(r) ==
    /\ tagWorld[r].ctor
    /\ \E k \in 1..Len(tagWorld[r].pages) : ~tagWorld[r].pages[k].ok

\* the diagnostics of the tag scan of the region at index k
TagDiagnostics(k) == {d \in stdout : d.kind = "tagged" /\ d.task = <<k, 0>>}

\* C18: when the tag index of a region fails on a page, the first or a later
\* one, the tag scan returns the empty sequence (the records of the earlier
\* pages are not returned) and has printed one diagnostic; main never stops
\* inside the tag scan; and a merged region whose tag scan failed has empty
\* tagged_resources and had a task submitted and completed for every service.
C18_TagFailureEmpty ==
    /\ (TagScanReturned /\ FailsOnPage(regions[ri])) =>
          /\ tagged_resources = <<>>
          /\ Cardinality(TagDiagnostics(ri)) = 1
          /\ \A d \in TagDiagnostics(ri) : d.region = regions[ri]
    /\ exitCode = 1 => pc \notin {"tag_client", "tag_pages"}
    /\ \A k \in 1..Len(regions) :
          (Phase(k) = "MERGED" /\ FailsOnPage(regions[k])) =>
            /\ resources_by_region[regions[k]].tagged_resources = <<>>
            /\ TagDiagnostics(k) # {}
            /\ AllTasksCompleted(k)

C18_Witness ==
    /\ pc = "as_completed"
    /\ FailsOnPage(regions[ri])
    /\ tagPage = 1
    /\ tagAcc # <<>>
    /\ tagged_resources = <<>>
    /\ \E t \in TasksOf(ri) : tasks[t].st = "done" /\ tasks[t].resources # EmptyMap

----------------------------------------------------------------------------
(* Bags without resources *)

\* the case-folded field name ends with one of the five suffixes
SuffixNamed(name) ==
    \E suffix \in {S_list, S_ids, S_arns, S_names, S_summaries} :
        EndsWith(ToLower(name), suffix)

\* a response with a suffix-named field and without any non-empty sequence
SuffixOnly(R) ==
    /\ \E f \in DOMAIN R : SuffixNamed(f)
    /\ \A f \in DOMAIN R : ~(R[f].isList /\ R[f].items # <<>>)

\* the calls of task t that returned a response of that kind
SuffixOnlyCalls(t) ==
    {j \in Returned(tasks[t]) :
        LET o == ClientOf(tasks[t]).out[tasks[t].invoked[j]]
        IN  o \in ResponseNames /\ SuffixOnly(Response(o))}

\* C19: a call that returns a response whose only qualifying fields are
\* suffix-named with an empty or non-sequence value still leaves a bag under
\* its operation, holding these fields; and the service of such a task is a key
\* of its region's all_resources once the region is merged.
C19_EmptyBagKept ==
    /\ \A t \in DOMAIN tasks : \A j \in SuffixOnlyCalls(t) :
          LET op == tasks[t].invoked[j]
              R == Response(ClientOf(tasks[t]).out[op])
          IN  /\ op \in DOMAIN tasks[t].resources
              /\ tasks[t].resources[op] = [f \in {g \in DOMAIN R : SuffixNamed(g)} |-> R[f]]
    /\ \A k \in 1..Len(regions) : \A t \in TasksOf(k) :
          (Phase(k) = "MERGED" /\ SuffixOnlyCalls(t) # {}) =>
              tasks[t].service \in DOMAIN resources_by_region[regions[k]].all_resources

C19_Witness ==
    \E r \in DOMAIN resources_by_region :
        \E s \in DOMAIN resources_by_region[r].all_resources :
            \A op \in DOMAIN resources_by_region[r].all_resources[s] :
                resources_by_region[r].all_resources[s][op] =
                    Put(EmptyMap, F_TableNames, ListValue(<<>>))

----------------------------------------------------------------------------
(* The cross-region total *)

\* the sum, over the first k entries of the region list, of the number of
\* identifiers the entry's tag scan returns
RECURSIVE TotalOfTagScans(_)
TotalOfTagScans(k) ==
    IF k = 0 THEN 0 ELSE TotalOfTagScans(k - 1) + Len(TagIdsOf(regions[k]))

\* the same sum over the tagged_resources of the snapshot
RECURSIVE TotalOfSnapshot(_)
TotalOfSnapshot(k) ==
    IF k = 0 THEN 0
    ELSE TotalOfSnapshot(k - 1) + Len(resources_by_region[regions[k]].tagged_resources)

\* C20: the total exists only when every region of the list is MERGED; it is
\* the sum, over the entries of the region list, of the length of the entry's
\* tagged_resources; and nothing is removed from a region's tagged_resources
\* or from its all_resources because the other holds it too: the first are
\* all the identifiers of the tag scan, the second all the non-empty results.
C20_TotalAfterMerge ==
    /\ total_tagged_resources # -1 =>
          /\ \A k \in 1..Len(regions) : Phase(k) = "MERGED"
          /\ pc \in {"dump", "done"}
          /\ total_tagged_resources = TotalOfSnapshot(Len(regions))
          /\ total_tagged_resources = TotalOfTagScans(Len(regions))
    /\ \A k \in 1..Len(regions) :
          Phase(k) = "MERGED" =>
            /\ resources_by_region[regions[k]].tagged_resources = TagIdsOf(regions[k])
            /\ \A t \in TasksOf(k) : \A op \in DOMAIN tasks[t].resources :
                  resources_by_region[regions[k]].all_resources[tasks[t].service][op]
                    = tasks[t].resources[op]

C20_Witness ==
    /\ pc = "done"
    /\ Len(regions) = 2
    /\ total_tagged_resources = 2
    /\ \A k \in 1..2 :
          /\ Arn_s2_z \in Range(resources_by_region[regions[k]].tagged_resources)
          /\ Mentioned(Arn_s2_z, resources_by_region[regions[k]].all_resources)

====
